---------------------------- MODULE Spec2Model ----------------------------
(***************************************************************************)
(* The Amazon S3 reader of lib/input/reader/amazon_s3.go as a state        *)
(* machine: Connect, Read (read / readFromMgr with readSQSEvents and       *)
(* popTargetKey) and Acknowledge, driven by a caller and by the outcomes   *)
(* of the S3 and SQS requests.                                             *)
(***************************************************************************)
EXTENDS Integers, Sequences, FiniteSets, TLC

(***************************************************************************)
(* Bounds of the model.                                                    *)
(***************************************************************************)
\* SQS messages handed out by ReceiveMessage over a whole behaviour
MaxReceived == 2
\* failures over a whole behaviour: of a session, a listing, a download, or
\* of the delivery of a message (Acknowledge with a non-nil error)
MaxFailures == 2
\* parts of a message handed to the decompress processor
MaxParts == 3
\* indexes in the parts list of the decompress processor
MaxTargets == 2
\* entries of the Redis list
MaxList == 4
\* receipt handles to delete in one call
MaxHandles == 25
\* characters of a timeout string
MaxTimeoutLen == 3

(***************************************************************************)
(* Program constants.                                                      *)
(***************************************************************************)
\* the largest number of entries of one DeleteMessageBatch request
DeleteBatchMax == 10

(***************************************************************************)
(* Strings are sequences of characters, so that strings.HasPrefix can be   *)
(* computed.  Bucket names are only compared and tested for emptiness.     *)
(***************************************************************************)
KeyA == <<"a">>
KeyB == <<"b">>

HasPrefix(s, prefix) ==
    /\ Len(prefix) <= Len(s)
    /\ SubSeq(s, 1, Len(prefix)) = prefix

Min(x, y) == IF x <= y THEN x ELSE y

(***************************************************************************)
(* JSON values found at a path of an SQS event (gabs Data()): a string, a  *)
(* slice, or anything else (number, map, missing path).                    *)
(***************************************************************************)
JStr(s)   == [t |-> "str",   s |-> s,    l |-> <<>>]
JList(l)  == [t |-> "list",  s |-> <<>>, l |-> l]
JOther    == [t |-> "other", s |-> <<>>, l |-> <<>>]

\* bucket names as JSON strings: one character sequence per bucket
BktB1 == <<"1">>
BktB2 == <<"2">>
CfgBucket == <<"c">>

RECURSIVE digStrsFromSlices(_)
digStrsFromSlices(slice) ==
    IF slice = <<>> THEN <<>>
    ELSE LET v == Head(slice)
             rest == digStrsFromSlices(Tail(slice))
         IN  CASE v.t = "list" -> digStrsFromSlices(v.l) \o rest
               [] v.t = "str"  -> <<v.s>> \o rest
               [] OTHER        -> rest

(***************************************************************************)
(* The SQS messages the queue can hand out.  body is "nil" (no body),      *)
(* "bad" (not JSON) or "obj"; key and bucket are the values found at       *)
(* sqs_body_path and sqs_bucket_path of the parsed event.                  *)
(***************************************************************************)
SQSMsg(body, key, bucket) == [body |-> body, key |-> key, bucket |-> bucket]

MsgCatalogue ==
    { SQSMsg("nil", JOther, JOther),
      SQSMsg("bad", JOther, JOther),
      SQSMsg("obj", JOther, JOther),
      SQSMsg("obj", JStr(KeyA), JStr(BktB1)),
      SQSMsg("obj", JList(<<JOther, JList(<<JStr(KeyA)>>), JStr(KeyB)>>),
                    JList(<<JStr(BktB1), JStr(BktB2)>>)),
      SQSMsg("obj", JList(<<JStr(KeyA)>>), JOther) }

\* the object listings a bucket can have (plain mode)
BucketListings == { <<>>, <<KeyA, KeyB>> }

VARIABLES
    conf,          \* AmazonS3.conf
    session,       \* AmazonS3.session # nil
    sqs,           \* AmazonS3.sqs # nil
    targetKeys,    \* AmazonS3.targetKeys
    readKeys,      \* AmazonS3.readKeys
    bucketObjects, \* the keys of the objects of the bucket, in listing order
    received,      \* the number of SQS messages received so far; a message's id is its rank
    ret,           \* the last call and what it returned
    calls,         \* the S3 and SQS requests the last call issued
    undelivered,   \* origins of the keys that entered targetKeys and were not sent onwards
    dropped,       \* origins of the keys removed after their retries ran out
    clean,         \* so far no download failed, no nack, and every event gave one key
    tally,         \* the requests and parts of the behaviour, counted while it is clean
    nFails,        \* failures so far
    failed,        \* per origin, the failed downloads of a key still pending or read
    deleted,       \* the receipt handles submitted for deletion so far
    decompParts,   \* Decompress.conf.Parts
    decompIn,      \* the message of the transaction handed to Decompress.ProcessMessage
    decompOut,     \* what ProcessMessage returned for it
    pipeline,      \* the pipeline's transaction around that message
    redisList,     \* the Redis list the redis_list input pops from
    preserver,     \* the preserver: the last message read and whether to re-emit it
    presRet,       \* the last call on the redis_list connector and what it returned
    unacked,       \* the entry popped and not acknowledged with nil yet, 0 if none
    presFails,     \* non-nil acknowledgements so far
    batchIn,       \* the handles a delete loop starts with, and which loop it is
    batchOut,      \* the DeleteMessageBatch requests the loop issued
    newIn,         \* the configuration handed to NewAmazonS3
    newOut         \* what NewAmazonS3 returned for it

s3Vars == << conf, session, sqs, targetKeys, readKeys, bucketObjects, received,
             ret, calls, undelivered, dropped, clean, tally, nFails, failed,
             deleted >>

decompVars == << decompParts, decompIn, decompOut, pipeline >>

presVars == << redisList, preserver, presRet, unacked, presFails >>

batchVars == << batchIn, batchOut >>

newVars == << newIn, newOut >>

vars == << s3Vars, decompVars, presVars, batchVars, newVars >>

\* the S3 reader is not part of the system under study
S3Off ==
    /\ conf = << >> /\ session = FALSE /\ sqs = FALSE
    /\ targetKeys = << >> /\ readKeys = << >> /\ bucketObjects = << >>
    /\ received = 0 /\ ret = << >> /\ calls = << >>
    /\ undelivered = {} /\ dropped = {} /\ clean = TRUE
    /\ tally = << >> /\ nFails = 0 /\ failed = << >>
    /\ deleted = {}

\* the decompress processor is not part of the system under study
DecompressOff ==
    /\ decompParts = << >> /\ decompIn = << >>
    /\ decompOut = << >> /\ pipeline = << >>

\* the delete loops are not studied on their own
BatchOff == batchIn = << >> /\ batchOut = << >>

\* the constructor is not studied on its own
NewOff == newIn = << >> /\ newOut = << >>

\* the redis_list input is not part of the system under study
PreserverOff ==
    /\ redisList = << >> /\ preserver = << >> /\ presRet = << >>
    /\ unacked = 0 /\ presFails = 0

(***************************************************************************)
(* NewAmazonS3Config / NewAmazonS3: the configurations of the reader.      *)
(* SQSURL is "" (no queue) or the URL of a queue.                          *)
(***************************************************************************)
Configs ==
    [ Bucket          : {CfgBucket},
      Prefix          : {<<>>, KeyB},
      Retries         : {0, 1, 2},
      DownloadManager : BOOLEAN,
      DeleteObjects   : BOOLEAN,
      SQSURL          : {"", "queue"},
      SQSMaxMessages  : {2},
      MaxBatchCount   : {1, 2} ]

\* objKey; origin (the event and the position in it the key came from) and
\* own (the bucket found at that position of the event) are history only
objKey(k, b, att, h, o, own) ==
    [s3Key |-> k, s3Bucket |-> b, attempts |-> att, sqsHandle |-> h,
     origin |-> o, own |-> own]

Ret(op, err, hasMsg, msg) ==
    [op |-> op, err |-> err, hasMsg |-> hasMsg, msg |-> msg]

\* s3del: DeleteObject calls; sqsdel: DeleteMessageBatch requests; polled:
\* origins of every key string of the events received; downloads: GetObject
\* or Download calls; listed: ListObjectsPages calls; settled: the readKeys
\* an Acknowledge found; delfail: the delete request of an Acknowledge that
\* failed ("s3", "sqs"), "none" if none did; receives: ReceiveMessage calls
NoCalls ==
    [s3del |-> <<>>, sqsdel |-> <<>>, polled |-> {}, downloads |-> 0,
     listed |-> 0, settled |-> 0, delfail |-> "none", receives |-> 0]

Tally(downloads, parts, s3del, sqsdel) ==
    [downloads |-> downloads, parts |-> parts, s3del |-> s3del,
     sqsdel |-> sqsdel]

\* Read returned a message that was not acknowledged yet
awaitingAck == ret.hasMsg

Init ==
    /\ conf \in Configs
    /\ bucketObjects \in (IF conf.SQSURL = "" THEN BucketListings ELSE {<<>>})
    /\ session = FALSE
    /\ sqs = FALSE
    /\ targetKeys = <<>>
    /\ readKeys = <<>>
    /\ received = 0
    /\ ret = Ret("New", "nil", FALSE, <<>>)
    /\ calls = NoCalls
    /\ undelivered = {}
    /\ dropped = {}
    /\ clean = TRUE
    /\ tally = Tally(0, 0, 0, 0)
    /\ nFails = 0
    /\ failed = << >>
    /\ deleted = {}
    /\ DecompressOff
    /\ PreserverOff
    /\ BatchOff
    /\ NewOff

(***************************************************************************)
(* Connect.  ListObjectsPages hands the listing over page by page (one     *)
(* object per page here); the callback appends every object of a page to   *)
(* targetKeys, also when a later page fails.                               *)
(***************************************************************************)
\* the objects S3 lists for the configured prefix
ListObjects(objs, prefix) == SelectSeq(objs, LAMBDA k : HasPrefix(k, prefix))

\* the callback of ListObjectsPages over the first n listed objects
ListedKeys(tk, listed, n) ==
    [i \in 1..n |->
        objKey(listed[i], <<>>, conf.Retries, 0, <<0, Len(tk) + i>>, <<>>)]

\* a Connect that never takes the early return
NeverConnected == FALSE

\* if a.session != nil { return nil }
AlreadyConnected == session

ConnectOutcomes ==
    {"ok"} \cup (IF nFails < MaxFailures THEN {"session", "list"} ELSE {})

Connect ==
    /\ IF AlreadyConnected
       THEN /\ ret' = Ret("Connect", "nil", FALSE, <<>>)
            /\ calls' = NoCalls
            /\ UNCHANGED << session, sqs, targetKeys, undelivered, nFails >>
       ELSE \E outcome \in ConnectOutcomes :
              LET listed == ListObjects(bucketObjects, conf.Prefix) IN
              CASE outcome = "session" ->
                     /\ ret' = Ret("Connect", "session", FALSE, <<>>)
                     /\ calls' = NoCalls
                     /\ nFails' = nFails + 1
                     /\ UNCHANGED << session, sqs, targetKeys, undelivered >>
                [] outcome = "list" ->
                     /\ conf.SQSURL = ""
                     /\ \E n \in 0..(IF Len(listed) = 0 THEN 0 ELSE Len(listed) - 1) :
                          LET new == ListedKeys(targetKeys, listed, n) IN
                          /\ targetKeys' = targetKeys \o new
                          /\ undelivered' = undelivered \cup
                                 {new[i].origin : i \in 1..n}
                     /\ ret' = Ret("Connect", "list", FALSE, <<>>)
                     /\ calls' = [NoCalls EXCEPT !.listed = 1]
                     /\ nFails' = nFails + 1
                     /\ UNCHANGED << session, sqs >>
                [] outcome = "ok" ->
                     /\ IF conf.SQSURL = ""
                        THEN LET new == ListedKeys(targetKeys, listed, Len(listed)) IN
                             /\ targetKeys' = targetKeys \o new
                             /\ undelivered' = undelivered \cup
                                    {new[i].origin : i \in 1..Len(listed)}
                             /\ sqs' = sqs
                        ELSE /\ sqs' = TRUE
                             /\ UNCHANGED << targetKeys, undelivered >>
                     /\ session' = TRUE
                     /\ ret' = Ret("Connect", "nil", FALSE, <<>>)
                     /\ calls' = [NoCalls EXCEPT
                                     !.listed = IF conf.SQSURL = "" THEN 1 ELSE 0]
                     /\ nFails' = nFails
    /\ UNCHANGED << conf, bucketObjects, readKeys, received, dropped, clean,
                    tally, failed, deleted >>

(***************************************************************************)
(* readSQSEvents.                                                          *)
(***************************************************************************)
\* the strings of strs that pass the prefix, each with its position in strs
RECURSIVE NewTargets(_, _, _)
NewTargets(strs, prefix, pos) ==
    IF strs = <<>> THEN <<>>
    ELSE (IF HasPrefix(Head(strs), prefix)
          THEN << [key |-> Head(strs), pos |-> pos] >> ELSE <<>>)
         \o NewTargets(Tail(strs), prefix, pos + 1)

\* var buckets []string
EventBuckets(m) ==
    CASE m.bucket.t = "str"  -> << m.bucket.s >>
      [] m.bucket.t = "list" -> digStrsFromSlices(m.bucket.l)
      [] OTHER               -> <<>>

\* bucket := ""; if len(buckets) > i { bucket = buckets[i] }  (i from 1 here)
TargetBucket(buckets, i) == IF Len(buckets) >= i THEN buckets[i] ELSE <<>>

\* the key strings message m carries at sqs_body_path
EventStrs(m) ==
    IF m.body # "obj" THEN <<>>
    ELSE CASE m.key.t = "str"  -> << m.key.s >>
           [] m.key.t = "list" -> digStrsFromSlices(m.key.l)
           [] OTHER            -> <<>>

\* every key of a message given the handle of the message
KeyHandleEvery(i, n, id) == id

\* the sqsHandle of the i-th of the n keys of a key list: only
\* a.targetKeys[len(a.targetKeys)-1].sqsHandle = msgHandle
KeyHandle(i, n, id) == IF i = n THEN id ELSE 0

\* the objKeys message m (receipt handle id) adds to targetKeys
EventKeys(m, id, c) ==
    IF m.body # "obj" THEN <<>>
    ELSE LET buckets == EventBuckets(m) IN
         CASE m.key.t = "str" ->
                IF HasPrefix(m.key.s, c.Prefix)
                THEN << objKey(m.key.s, TargetBucket(buckets, 1), c.Retries,
                               id, <<id, 1>>, TargetBucket(buckets, 1)) >>
                ELSE <<>>
           [] m.key.t = "list" ->
                LET newTargets == NewTargets(digStrsFromSlices(m.key.l), c.Prefix, 1)
                    n == Len(newTargets)
                IN  [i \in 1..n |->
                        objKey(newTargets[i].key, TargetBucket(buckets, i),
                               c.Retries, KeyHandle(i, n, id),
                               <<id, newTargets[i].pos>>,
                               TargetBucket(buckets, newTargets[i].pos))]
           [] OTHER -> <<>>

\* whether the handle of message m is appended to dudMessageHandles
IsDud(m, c) ==
    \/ m.body = "nil"
    \/ m.body = "bad"
    \/ /\ m.body = "obj"
       /\ m.key.t = "list"
       /\ NewTargets(digStrsFromSlices(m.key.l), c.Prefix, 1) = <<>>

\* the messageLoop over output.Messages; base is the id before the first
RECURSIVE messageLoop(_, _, _)
messageLoop(msgs, base, c) ==
    IF msgs = <<>> THEN [keys |-> <<>>, duds |-> <<>>, polled |-> {}]
    ELSE LET id == base + 1
             m == Head(msgs)
             rest == messageLoop(Tail(msgs), id, c)
         IN  [keys |-> EventKeys(m, id, c) \o rest.keys,
              duds |-> (IF IsDud(m, c) THEN <<id>> ELSE <<>>) \o rest.duds,
              polled |-> { <<id, i>> : i \in 1..Len(EventStrs(m)) }
                         \cup rest.polled]

\* a loop whose next slice starts at the last entry of the one before
RECURSIVE DeleteBatchesOverlap(_, _)
DeleteBatchesOverlap(handles, kind) ==
    IF handles = <<>> THEN <<>>
    ELSE IF Len(handles) > DeleteBatchMax
         THEN << [kind |-> kind, entries |-> SubSeq(handles, 1, DeleteBatchMax)] >>
              \o DeleteBatchesOverlap(SubSeq(handles, DeleteBatchMax, Len(handles)), kind)
         ELSE << [kind |-> kind, entries |-> handles] >>

\* the DeleteMessageBatch requests that submit handles, DeleteBatchMax at a time
RECURSIVE DeleteBatches(_, _)
DeleteBatches(handles, kind) ==
    IF handles = <<>> THEN <<>>
    ELSE IF Len(handles) > DeleteBatchMax
         THEN << [kind |-> kind, entries |-> SubSeq(handles, 1, DeleteBatchMax)] >>
              \o DeleteBatches(SubSeq(handles, DeleteBatchMax + 1, Len(handles)), kind)
         ELSE << [kind |-> kind, entries |-> handles] >>

RECURSIVE SeqsUpTo(_, _)
SeqsUpTo(S, n) ==
    IF n = 0 THEN { <<>> }
    ELSE LET shorter == SeqsUpTo(S, n - 1) IN
         shorter \cup { Append(q, x) : q \in {r \in shorter : Len(r) = n - 1}, x \in S }

\* what ReceiveMessage can answer: an error, or up to sqs_max_messages messages
ReceiveMessage ==
    { [err |-> TRUE, msgs |-> <<>>] } \cup
    { [err |-> FALSE, msgs |-> q] :
        q \in SeqsUpTo(MsgCatalogue, Min(conf.SQSMaxMessages, MaxReceived - received)) }

\* every event of msgs yields exactly one target key
SingleKeyEvents(msgs, c) ==
    \A i \in 1..Len(msgs) : Len(EventKeys(msgs[i], i, c)) = 1

(***************************************************************************)
(* popTargetKey, on the pair (targetKeys, readKeys).                       *)
(***************************************************************************)
\* a popTargetKey that forgets the key it removes
popTargetKeyDiscard(tk, rk) ==
    IF Len(tk) = 0 THEN [tk |-> tk, rk |-> rk]
    ELSE [tk |-> IF Len(tk) > 1 THEN Tail(tk) ELSE <<>>, rk |-> rk]

popTargetKey(tk, rk) ==
    IF Len(tk) = 0 THEN [tk |-> tk, rk |-> rk]
    ELSE [tk |-> IF Len(tk) > 1 THEN Tail(tk) ELSE <<>>,
          rk |-> Append(rk, tk[1])]

\* bucket := a.conf.Bucket; if len(target.s3Bucket) > 0 { bucket = target.s3Bucket }
DownloadBucket(key, c) ==
    IF Len(key.s3Bucket) > 0 THEN key.s3Bucket ELSE c.Bucket

\* a part that carries the bucket of the key instead of the bucket requested
NewPartKeyBucket(target, bucket, meta) ==
    [s3_key |-> target.s3Key, s3_bucket |-> target.s3Bucket, meta |-> meta,
     origin |-> target.origin]

\* the part built from a downloaded object; meta: the object's own metadata
\* (last modified, content type, user defined) was copied
NewPart(target, bucket, meta) ==
    [s3_key |-> target.s3Key, s3_bucket |-> bucket, meta |-> meta,
     origin |-> target.origin]

(***************************************************************************)
(* The download loop of read (mgr = FALSE) and readFromMgr (mgr = TRUE).   *)
(* Every iteration ends in one of: timeoutAt has passed, the download      *)
(* succeeded, GetObject / Download returned an error and, for read only,   *)
(* ioutil.ReadAll of the object body returned an error.                    *)
(* st: tk, rk (targetKeys, readKeys), msg, err, and the bookkeeping of     *)
(* the requests made (nd downloads, drops, fails).                         *)
(***************************************************************************)
\* a loop condition that lets one part too many in
BatchHasRoomOffByOne(msg, c) == Len(msg) <= c.MaxBatchCount

\* msg.Len() < a.conf.MaxBatchCount
BatchHasRoom(msg, c) == Len(msg) < c.MaxBatchCount

\* len(a.targetKeys) > 0 && msg.Len() < a.conf.MaxBatchCount; the third
\* conjunct, time.Until(timeoutAt) > 0, is an outcome of the iteration
LoopCond(st) ==
    /\ Len(st.tk) > 0
    /\ BatchHasRoom(st.msg, conf)

\* a key removed at its first failed download
RetriesExhaustedAlways(attempts) == TRUE

\* a key removed when one attempt is still left
RetriesExhaustedEarly(attempts) == attempts <= 1

\* target.attempts--; if target.attempts == 0 { the key is removed }
RetriesExhausted(attempts) == attempts = 0

\* the failed downloads counted for origin o
FailedOf(f, o) == IF o \in DOMAIN f THEN f[o] ELSE 0

\* one more failed download for origin o
CountFailure(f, o) ==
    [x \in DOMAIN f \cup {o} |-> IF x = o THEN FailedOf(f, o) + 1 ELSE f[x]]

\* the states the loop can end in, over every outcome of its iterations
RECURSIVE readLoop(_, _)
readLoop(st, mgr) ==
    IF ~LoopCond(st) THEN {st}
    ELSE
      LET target == st.tk[1]
          bucket == DownloadBucket(target, conf)
          p      == popTargetKey(st.tk, st.rk)
          st1    == [st EXCEPT !.nd = @ + 1]
          stf    == [st1 EXCEPT !.fails = @ + 1]
          stg    == [stf EXCEPT !.failed = CountFailure(@, target.origin)]
          attempts == target.attempts - 1
          \* time.Until(timeoutAt) <= 0
          timedOut == {st}
          \* the download succeeded
          ok == readLoop([st1 EXCEPT !.tk = p.tk, !.rk = p.rk,
                             !.msg = Append(@, NewPart(target, bucket, ~mgr))],
                         mgr)
          \* GetObject / Download returned an error
          fail == IF RetriesExhausted(attempts)
                  THEN readLoop([stg EXCEPT !.tk = p.tk, !.rk = p.rk,
                                    !.drops = @ \cup {target.origin}], mgr)
                  ELSE LET st2 == [stg EXCEPT !.tk[1].attempts = attempts] IN
                       IF Len(st.msg) = 0
                       THEN {[st2 EXCEPT !.err = "error"]}
                       ELSE {st2}
          \* ioutil.ReadAll(obj.Body) returned an error (read only)
          body == IF mgr THEN {}
                  ELSE {[stf EXCEPT !.tk = p.tk, !.rk = p.rk, !.err = "error"]}
      IN  timedOut \cup ok
            \cup (IF st.fails < MaxFailures THEN fail \cup body ELSE {})

\* the origins of the keys of a key list
KeyOrigins(keys) == { keys[i].origin : i \in 1..Len(keys) }

\* the origins of the parts of a message
Origins(msg) == { msg[i].origin : i \in 1..Len(msg) }

(***************************************************************************)
(* Read: a.readMethod(), read or readFromMgr as NewAmazonS3 selected.      *)
(***************************************************************************)
\* a Read that never takes the NotConnected return
NotConnectedNever == FALSE

\* if a.session == nil { return nil, types.ErrNotConnected }
NotConnected == ~session

\* a Read that never takes the Timeout return
NoTargetsNever(tk) == FALSE

\* if len(a.targetKeys) == 0 { return nil, types.ErrTimeout }
NoTargets(tk) == Len(tk) = 0

\* s.readMethod: readFromMgr if conf.DownloadManager.Enabled, else read
ReadMethod(c) == IF c.DownloadManager THEN "readFromMgr" ELSE "read"

\* a Read that asks the queue for events whatever is pending
TargetsExhaustedAlways(tk) == TRUE

\* if len(a.targetKeys) == 0 { readSQSEvents, or ErrTypeClosed without SQS }
TargetsExhausted(tk) == Len(tk) = 0

Read ==
    /\ IF NotConnected
       THEN /\ ret' = Ret("Read", "NotConnected", FALSE, <<>>)
            /\ calls' = NoCalls
            /\ UNCHANGED << targetKeys, readKeys, received, undelivered,
                            dropped, clean, tally, nFails, failed, deleted >>
       ELSE IF TargetsExhausted(targetKeys) /\ ~sqs
       THEN /\ ret' = Ret("Read", "TypeClosed", FALSE, <<>>)
            /\ calls' = NoCalls
            /\ UNCHANGED << targetKeys, readKeys, received, undelivered,
                            dropped, clean, tally, nFails, failed, deleted >>
       ELSE \E output \in (IF TargetsExhausted(targetKeys) THEN ReceiveMessage
                           ELSE { [err |-> FALSE, msgs |-> <<>>] }) :
              IF output.err
              THEN /\ ret' = Ret("Read", "error", FALSE, <<>>)
                   /\ calls' = [NoCalls EXCEPT !.receives = 1]
                   /\ UNCHANGED << targetKeys, readKeys, received, undelivered,
                                   dropped, clean, tally, nFails, failed,
                                   deleted >>
              ELSE
                LET ev == messageLoop(output.msgs, received, conf)
                    tk == targetKeys \o ev.keys
                    batches == DeleteBatches(ev.duds, "dud")
                    single == SingleKeyEvents(output.msgs, conf)
                    receives == IF TargetsExhausted(targetKeys) THEN 1 ELSE 0
                IN
                /\ received' = received + Len(output.msgs)
                /\ deleted' = deleted \cup { ev.duds[i] : i \in 1..Len(ev.duds) }
                /\ undelivered' = undelivered \cup
                       { ev.keys[i].origin : i \in 1..Len(ev.keys) }
                /\ IF NoTargets(tk)
                   THEN /\ ret' = Ret("Read", "Timeout", FALSE, <<>>)
                        /\ calls' = [NoCalls EXCEPT !.sqsdel = batches,
                                                    !.polled = ev.polled,
                                                    !.receives = receives]
                        /\ clean' = (clean /\ single)
                        /\ tally' = IF clean' THEN tally ELSE Tally(0, 0, 0, 0)
                        /\ UNCHANGED << targetKeys, readKeys, dropped, nFails,
                                        failed >>
                   ELSE \E st \in readLoop([tk |-> tk, rk |-> readKeys,
                                              msg |-> <<>>, err |-> "nil",
                                              nd |-> 0, drops |-> {},
                                              fails |-> nFails,
                                              failed |-> failed],
                                             ReadMethod(conf) = "readFromMgr") :
                          LET parts == IF st.err = "nil" THEN Len(st.msg) ELSE 0
                          IN
                          /\ nFails' = st.fails
                          /\ failed' = st.failed
                          /\ targetKeys' = st.tk
                          /\ readKeys' = st.rk
                          /\ dropped' = dropped \cup st.drops
                          /\ calls' = [NoCalls EXCEPT !.sqsdel = batches,
                                                      !.polled = ev.polled,
                                                      !.downloads = st.nd,
                                                      !.receives = receives]
                          /\ clean' = (clean /\ st.fails = nFails /\ single)
                          /\ tally' = IF clean'
                                      THEN [tally EXCEPT !.downloads = @ + st.nd,
                                                         !.parts = @ + parts]
                                      ELSE Tally(0, 0, 0, 0)
                          /\ IF st.err = "nil"
                             THEN ret' = Ret("Read", "nil", TRUE, st.msg)
                             ELSE ret' = Ret("Read", st.err, FALSE, <<>>)
    /\ UNCHANGED << conf, bucketObjects, session, sqs >>

(***************************************************************************)
(* Acknowledge(err); err is TRUE for a non-nil error.                      *)
(***************************************************************************)
\* an Acknowledge that deletes the objects whatever delete_objects says
DeleteObjectsAlways(rk, c) ==
    [i \in 1..Len(rk) |->
        [bucket |-> DownloadBucket(rk[i], c), key |-> rk[i].s3Key,
         origin |-> rk[i].origin]]

\* the DeleteObject calls of Acknowledge(nil) over readKeys
DeleteObjects(rk, c) ==
    IF c.DeleteObjects
    THEN [i \in 1..Len(rk) |->
            [bucket |-> DownloadBucket(rk[i], c), key |-> rk[i].s3Key,
             origin |-> rk[i].origin]]
    ELSE <<>>

\* an Acknowledge that submits the handle of the last key read only
deleteHandlesLastOnly(rk) ==
    IF rk = <<>> \/ rk[Len(rk)].sqsHandle = 0 THEN <<>>
    ELSE << rk[Len(rk)].sqsHandle >>

\* deleteHandles: the handles of readKeys that are not nil
RECURSIVE deleteHandles(_)
deleteHandles(rk) ==
    IF rk = <<>> THEN <<>>
    ELSE (IF Head(rk).sqsHandle # 0 THEN << Head(rk).sqsHandle >> ELSE <<>>)
         \o deleteHandles(Tail(rk))

\* a nack that forgets the pending keys
RestoreKeysOverwrite(rk, tk) == rk

\* a nack that puts the read keys behind the pending ones
RestoreKeysBehind(rk, tk) == tk \o rk

\* a.targetKeys = append(a.readKeys, a.targetKeys...)
RestoreKeys(rk, tk) == rk \o tk

\* the delete request of an Acknowledge(nil) that fails, if any: DeleteObject
\* returns an error, or DeleteMessageBatch returns one or reports failed entries
DeleteOutcomes(s3del, handles) ==
    {"none"} \cup
    (IF nFails < MaxFailures
     THEN (IF s3del # << >> THEN {"s3"} ELSE {})
            \cup (IF handles # << >> THEN {"sqs"} ELSE {})
     ELSE {})

\* an Acknowledge that puts the keys back when a delete failed
OnDeleteFailureRestore(rk, tk) == rk \o tk

\* targetKeys after a failed delete: a.log.Errorf and nothing else
OnDeleteFailure(rk, tk) == tk

Acknowledge(err) ==
    /\ IF ~err
       THEN LET s3del == DeleteObjects(readKeys, conf)
                handles == deleteHandles(readKeys)
            IN
            \E fail \in DeleteOutcomes(s3del, handles) :
            /\ calls' = [NoCalls EXCEPT !.s3del = s3del,
                                        !.sqsdel = DeleteBatches(handles, "ack"),
                                        !.settled = Len(readKeys),
                                        !.delfail = fail]
            /\ readKeys' = <<>>
            /\ targetKeys' = IF fail = "none" THEN targetKeys
                              ELSE OnDeleteFailure(readKeys, targetKeys)
            /\ nFails' = IF fail = "none" THEN nFails ELSE nFails + 1
            /\ clean' = (clean /\ fail = "none")
            /\ undelivered' = undelivered \ Origins(ret.msg)
            /\ tally' = IF clean'
                        THEN [tally EXCEPT !.s3del = @ + Len(s3del),
                                           !.sqsdel = @ + Len(handles)]
                        ELSE IF clean THEN Tally(0, 0, 0, 0) ELSE tally
            /\ failed' = [o \in DOMAIN failed \ KeyOrigins(readKeys) |-> failed[o]]
            /\ deleted' = deleted \cup { handles[i] : i \in 1..Len(handles) }
       ELSE /\ nFails < MaxFailures
            /\ targetKeys' = RestoreKeys(readKeys, targetKeys)
            /\ readKeys' = <<>>
            /\ calls' = [NoCalls EXCEPT !.settled = Len(readKeys)]
            /\ nFails' = nFails + 1
            /\ clean' = FALSE
            /\ tally' = Tally(0, 0, 0, 0)
            /\ UNCHANGED << undelivered, failed, deleted >>
    /\ ret' = Ret(IF err THEN "Nack" ELSE "Ack", "nil", FALSE, <<>>)
    /\ UNCHANGED << conf, bucketObjects, session, sqs, received, dropped >>

(***************************************************************************)
(* The calls of the reader adaptor's driver: Connect and Read while no     *)
(* message awaits its response, and one Acknowledge for each message Read  *)
(* returned.                                                               *)
(***************************************************************************)
Next ==
    \/ ~awaitingAck /\ Connect /\ UNCHANGED << decompVars, presVars, batchVars, newVars >>
    \/ ~awaitingAck /\ Read /\ UNCHANGED << decompVars, presVars, batchVars, newVars >>
    \/ awaitingAck /\ Acknowledge(FALSE) /\ UNCHANGED << decompVars, presVars, batchVars, newVars >>
    \/ awaitingAck /\ Acknowledge(TRUE) /\ UNCHANGED << decompVars, presVars, batchVars, newVars >>

Spec == Init /\ [][Next]_vars

(***************************************************************************)
(* The delete loops on their own: for len(handles) > 0 { ... } of          *)
(* Acknowledge (the handles of the keys read) and of readSQSEvents (the    *)
(* dud handles), started with any number of handles.                       *)
(***************************************************************************)
BatchInputs ==
    { [handles |-> [i \in 1..n |-> base + i], kind |-> kind] :
        n \in 0..MaxHandles, base \in 0..2, kind \in {"ack", "dud"} }

BatchInit ==
    /\ batchIn \in BatchInputs
    /\ batchOut = [done |-> FALSE, requests |-> << >>]
    /\ S3Off
    /\ DecompressOff
    /\ PreserverOff
    /\ NewOff

DeleteLoop ==
    /\ ~batchOut.done
    /\ batchOut' = [done |-> TRUE,
                    requests |-> DeleteBatches(batchIn.handles, batchIn.kind)]
    /\ UNCHANGED << batchIn, s3Vars, decompVars, presVars, newVars >>

BatchNext == DeleteLoop

BatchSpec == BatchInit /\ [][BatchNext]_vars

(***************************************************************************)
(* NewAmazonS3 on its own, over configurations that include the ones it    *)
(* rejects.  A timeout is a string over the characters 5, m and s;         *)
(* durations are counted in milliseconds.                                  *)
(***************************************************************************)
TimeoutChars == {"5", "m", "s"}

Timeouts == SeqsUpTo(TimeoutChars, MaxTimeoutLen)

NewConfigs ==
    [ Bucket          : {CfgBucket},
      Prefix          : {<<>>},
      Retries         : {1},
      DownloadManager : BOOLEAN,
      DeleteObjects   : {FALSE},
      SQSURL          : {""},
      SQSMaxMessages  : {2},
      MaxBatchCount   : {-1, 0, 1, 2},
      Timeout         : Timeouts ]

IsDigit(ch) == ch = "5"

\* leadingInt: the digits s starts with as a number, and the rest of s
RECURSIVE leadingInt(_, _)
leadingInt(s, x) ==
    IF s = << >> \/ ~IsDigit(Head(s)) THEN [x |-> x, rem |-> s]
    ELSE leadingInt(Tail(s), x * 10 + 5)

\* the unit: the characters up to the next digit, and the rest of s
RECURSIVE unitOf(_, _)
unitOf(s, u) ==
    IF s = << >> \/ IsDigit(Head(s)) THEN [u |-> u, rem |-> s]
    ELSE unitOf(Tail(s), Append(u, Head(s)))

\* unitMap in milliseconds, 0 for a unit it does not hold
unitMap(u) ==
    CASE u = <<"m", "s">> -> 1
      [] u = <<"s">>      -> 1000
      [] u = <<"m">>      -> 60000
      [] OTHER            -> 0

\* the loop of time.ParseDuration: a number, then a unit, until s is used up
RECURSIVE parseLoop(_, _)
parseLoop(s, d) ==
    IF s = << >> THEN [err |-> FALSE, d |-> d]
    ELSE IF ~IsDigit(Head(s)) THEN [err |-> TRUE, d |-> 0]
    ELSE LET n == leadingInt(s, 0)
             u == unitOf(n.rem, << >>)
         IN  IF u.u = << >> \/ unitMap(u.u) = 0
             THEN [err |-> TRUE, d |-> 0]
             ELSE parseLoop(u.rem, d + n.x * unitMap(u.u))

\* time.ParseDuration
ParseDuration(s) ==
    IF s = << >> THEN [err |-> TRUE, d |-> 0] ELSE parseLoop(s, 0)

\* a constructor that lets a max_batch_count of zero through
BatchCountInvalidBelowZero(c) == c.MaxBatchCount < 0

\* if conf.MaxBatchCount < 1 { return nil, fmt.Errorf(...) }
BatchCountInvalid(c) == c.MaxBatchCount < 1

\* the reader and the error NewAmazonS3 returns; reader << >> is nil
NewAmazonS3(c) ==
    LET parsed == IF Len(c.Timeout) > 0 THEN ParseDuration(c.Timeout)
                  ELSE [err |-> FALSE, d |-> 0]
    IN  IF parsed.err
        THEN [done |-> TRUE, err |-> "timeout", reader |-> << >>]
        ELSE IF BatchCountInvalid(c)
        THEN [done |-> TRUE, err |-> "max_batch_count", reader |-> << >>]
        ELSE [done |-> TRUE, err |-> "nil",
              reader |-> [conf |-> c, timeout |-> parsed.d,
                          readMethod |-> ReadMethod(c)]]

NewInit ==
    /\ newIn \in NewConfigs
    /\ newOut = [done |-> FALSE, err |-> "nil", reader |-> << >>]
    /\ S3Off
    /\ DecompressOff
    /\ PreserverOff
    /\ BatchOff

Construct ==
    /\ ~newOut.done
    /\ newOut' = NewAmazonS3(newIn)
    /\ UNCHANGED << newIn, s3Vars, decompVars, presVars, batchVars >>

NewNext == Construct

NewSpec == NewInit /\ [][NewNext]_vars

(***************************************************************************)
(* The decompress processor.  A part is its payload: data identifies the   *)
(* content and gz counts the gzip layers around it (0: not gzip data).     *)
(***************************************************************************)
Payload(data, gz) == [data |-> data, gz |-> gz]

\* the messages handed to the processor: part i has content i
Messages ==
    UNION { { [i \in 1..n |-> Payload(i, d[i])] : d \in [1..n -> 0..2] } :
              n \in 0..MaxParts }

\* the values of the parts list of the configuration
PartIndexes == (0 - MaxParts - 1)..MaxParts

DecompressConfigs == SeqsUpTo(PartIndexes, MaxTargets)

\* gzipDecompress: an error unless b is gzip data, else the data inside
gzipDecompress(b) ==
    IF b.gz = 0 THEN [err |-> TRUE, bytes |-> b]
    ELSE [err |-> FALSE, bytes |-> Payload(b.data, b.gz - 1)]

\* a negative index counted from one position too far
IsTargetOffByOne(i, lParts, parts) ==
    \/ Len(parts) = 0
    \/ \E j \in 1..Len(parts) : parts[j] = i - lParts - 1 \/ parts[j] = i

\* isTarget for the part at index i (from 0) of a message of lParts parts
IsTarget(i, lParts, parts) ==
    LET noParts == Len(parts) = 0
        nI == i - lParts
    IN  \/ noParts
        \/ \E j \in 1..Len(parts) : parts[j] = nI \/ parts[j] = i

\* a processor that keeps the part it failed to decompress
OnDecompressErrorKeep(newParts, part) == Append(newParts, part)

\* the else branch of err == nil: nothing is appended
OnDecompressError(newParts, part) == newParts

\* the loop over msg.Parts from index i on; the value is newMsg.Parts
RECURSIVE partsLoop(_, _, _, _)
partsLoop(msgParts, i, parts, newParts) ==
    IF i >= Len(msgParts) THEN newParts
    ELSE LET part == msgParts[i + 1] IN
         IF ~IsTarget(i, Len(msgParts), parts)
         THEN partsLoop(msgParts, i + 1, parts, Append(newParts, part))
         ELSE LET r == gzipDecompress(part) IN
              IF ~r.err
              THEN partsLoop(msgParts, i + 1, parts, Append(newParts, r.bytes))
              ELSE partsLoop(msgParts, i + 1, parts,
                             OnDecompressError(newParts, part))

\* a loop that decompresses a target part in place
PartAfterInPlace(part, isTarget) ==
    IF isTarget /\ ~gzipDecompress(part).err
    THEN gzipDecompress(part).bytes
    ELSE part

\* msg.Parts[i] after the iteration over it: the loop reads part, appends
\* it or its decompressed copy to newMsg.Parts, and assigns nothing to msg
PartAfter(part, isTarget) == part

\* msg.Parts after ProcessMessage
InputAfter(msg, parts) ==
    [i \in 1..Len(msg) |->
        PartAfter(msg[i], IsTarget(i - 1, Len(msg), parts))]

\* a processor that never skips a message
NeverSkipped(newParts) == FALSE

\* if len(newMsg.Parts) == 0
IsSkipped(newParts) == Len(newParts) = 0

\* a processor that returns every part it kept as a message of its own
ProcessMessageSplit(msg, parts) ==
    LET newParts == partsLoop(msg, 0, parts, << >>) IN
    IF IsSkipped(newParts)
    THEN [msgs |-> << >>, resp |-> "success"]
    ELSE [msgs |-> [k \in 1..Len(newParts) |-> << newParts[k] >>],
          resp |-> "nil"]

\* ProcessMessage: the messages and the response returned; resp is "nil"
\* or "success" (types.NewSimpleResponse(nil))
ProcessMessage(msg, parts) ==
    LET newParts == partsLoop(msg, 0, parts, << >>) IN
    IF IsSkipped(newParts)
    THEN [msgs |-> << >>, resp |-> "success"]
    ELSE [msgs |-> << newParts >>, resp |-> "nil"]

(***************************************************************************)
(* The pipeline around the processor: a transaction arrives, the processor *)
(* is invoked and its result dispatched; without a response the message    *)
(* goes to the processors that follow and then downstream, whose response  *)
(* resolves the transaction.  A transaction resolved with an error is      *)
(* presented again with the same message.                                  *)
(***************************************************************************)
Pipeline(txn, further, emitted) ==
    [txn |-> txn, further |-> further, emitted |-> emitted]

DecompressInit ==
    /\ decompParts \in DecompressConfigs
    /\ decompIn \in Messages
    /\ decompOut = [msgs |-> << >>, resp |-> "nil"]
    /\ pipeline = Pipeline("none", 0, << >>)
    /\ S3Off
    /\ PreserverOff
    /\ BatchOff
    /\ NewOff

ProcessTransaction ==
    /\ pipeline.txn \in {"none", "error"}
    /\ LET out == ProcessMessage(decompIn, decompParts) IN
       /\ decompOut' = out
       /\ decompIn' = InputAfter(decompIn, decompParts)
       /\ pipeline' = IF out.resp # "nil"
                       THEN Pipeline(out.resp, 0, << >>)
                       ELSE Pipeline("pending", Len(out.msgs), out.msgs)
    /\ UNCHANGED << decompParts, s3Vars, presVars, batchVars, newVars >>

DownstreamResponse(resp) ==
    /\ pipeline.txn = "pending"
    /\ pipeline' = [pipeline EXCEPT !.txn = resp]
    /\ UNCHANGED << decompParts, decompIn, decompOut, s3Vars, presVars,
                    batchVars, newVars >>

DecompressNext ==
    \/ ProcessTransaction
    \/ DownstreamResponse("success")
    \/ DownstreamResponse("error")

DecompressSpec == DecompressInit /\ [][DecompressNext]_vars

(***************************************************************************)
(* The redis_list input: a reader that pops the head of a Redis list with  *)
(* BLPOP, wrapped in the preserver by NewRedisList.  The entries of the    *)
(* list are 1 and 2; 0 stands for no message.                              *)
(***************************************************************************)
\* an input whose reader is handed over without the preserver
PreserverNotWrapped == FALSE

\* NewReader("redis_list", reader.NewPreserver(r), log, stats)
PreserverWrapped == TRUE

PRet(op, err, hasMsg, msg, blpop) ==
    [op |-> op, err |-> err, hasMsg |-> hasMsg, msg |-> msg, blpop |-> blpop]

Preserved(last, resend) == [last |-> last, resend |-> resend]

\* BLPOP: the head of the list leaves it; Timeout when the list is empty
BLPop(list) ==
    IF list = << >> THEN [err |-> "Timeout", msg |-> 0, list |-> list]
    ELSE [err |-> "nil", msg |-> Head(list), list |-> Tail(list)]

PreserverInit ==
    /\ redisList \in SeqsUpTo({1, 2}, MaxList)
    /\ preserver = Preserved(0, FALSE)
    /\ presRet = PRet("New", "nil", FALSE, 0, FALSE)
    /\ unacked = 0
    /\ presFails = 0
    /\ S3Off
    /\ DecompressOff
    /\ BatchOff
    /\ NewOff

\* Read of the connector: the message retained after a failed
\* acknowledgement, else what the Redis reader pops
PreserverRead ==
    /\ IF PreserverWrapped /\ preserver.resend
       THEN /\ presRet' = PRet("Read", "nil", TRUE, preserver.last, FALSE)
            /\ preserver' = Preserved(preserver.last, FALSE)
            /\ UNCHANGED << redisList, unacked >>
       ELSE LET r == BLPop(redisList) IN
            /\ redisList' = r.list
            /\ presRet' = PRet("Read", r.err, r.err = "nil", r.msg, TRUE)
            /\ preserver' = IF PreserverWrapped /\ r.err = "nil"
                             THEN Preserved(r.msg, FALSE)
                             ELSE preserver
            /\ unacked' = IF r.err = "nil" THEN r.msg ELSE unacked
    /\ UNCHANGED << presFails, s3Vars, decompVars, batchVars, newVars >>

\* Acknowledge(err) of the connector; err is TRUE for a non-nil error
PreserverAcknowledge(err) ==
    /\ IF err
       THEN /\ presFails < MaxFailures
            /\ presFails' = presFails + 1
            /\ preserver' = IF PreserverWrapped
                             THEN Preserved(preserver.last, TRUE)
                             ELSE preserver
            /\ UNCHANGED unacked
       ELSE /\ preserver' = Preserved(0, FALSE)
            /\ unacked' = 0
            /\ UNCHANGED presFails
    /\ presRet' = PRet(IF err THEN "Nack" ELSE "Ack", "nil", FALSE, 0, FALSE)
    /\ UNCHANGED << redisList, s3Vars, decompVars, batchVars, newVars >>

\* the reader adaptor's driver over the connector
PreserverNext ==
    \/ ~presRet.hasMsg /\ PreserverRead
    \/ presRet.hasMsg /\ PreserverAcknowledge(FALSE)
    \/ presRet.hasMsg /\ PreserverAcknowledge(TRUE)

PreserverSpec == PreserverInit /\ [][PreserverNext]_vars

(***************************************************************************)
(* Vocabulary of the properties.                                           *)
(***************************************************************************)
\* the keys pending or read and not acknowledged
HeldKeys == { targetKeys[i] : i \in 1..Len(targetKeys) }
                \cup { readKeys[i] : i \in 1..Len(readKeys) }

\* the receipt handles the last call submitted for deletion, by kind of request
Submitted(kind) ==
    UNION { { calls.sqsdel[b].entries[j] : j \in 1..Len(calls.sqsdel[b].entries) } :
              b \in { i \in 1..Len(calls.sqsdel) : calls.sqsdel[i].kind = kind } }

SQSMode == conf.SQSURL # ""

\* the bucket an event names for a key, or the configured bucket
OwnBucket(key) == IF Len(key.own) > 0 THEN key.own ELSE conf.Bucket

\* a key without its attempts counter
KeyId(k) == [k EXCEPT !.attempts = 0]

\* readKeys followed by targetKeys, the keys without their attempts counters
AllKeys(rk, tk) == [i \in 1..(Len(rk) + Len(tk)) |->
                      KeyId(IF i <= Len(rk) THEN rk[i] ELSE tk[i - Len(rk)])]

\* sequence p is a prefix of sequence q
IsPrefix(p, q) == Len(p) <= Len(q) /\ SubSeq(q, 1, Len(p)) = p

\* the attempts key o has left: as pending, else as it will enter targetKeys
AttemptsLeft(o) ==
    IF \E i \in 1..Len(targetKeys) : targetKeys[i].origin = o
    THEN LET i == CHOOSE j \in 1..Len(targetKeys) : targetKeys[j].origin = o
         IN  targetKeys[i].attempts
    ELSE conf.Retries

\* the entries of the DeleteMessageBatch requests of a call, in order
RECURSIVE Entries(_)
Entries(batches) ==
    IF batches = << >> THEN << >>
    ELSE Head(batches).entries \o Entries(Tail(batches))

\* the keys among keys that came from the message with receipt handle id
KeysOfMessage(keys, id) ==
    { i \in 1..Len(keys) : keys[i].origin[1] = id }

\* ProcessMessage has been called
Processed == pipeline.txn # "none"

\* the parts of the message ProcessMessage returned, none if it returned none
OutParts == IF decompOut.msgs = << >> THEN << >> ELSE decompOut.msgs[1]

\* the parts list names index t
Configured(t) == \E j \in 1..Len(decompParts) : decompParts[j] = t

\* the documented selection of the part at index i (from 0) of the input
Selected(i) ==
    \/ decompParts = << >>
    \/ Configured(i)
    \/ Configured(i - Len(decompIn))

\* the part at index i did not come out as it went in
Applied(i) == \A k \in 1..Len(OutParts) : OutParts[k] # decompIn[i + 1]

\* the indexes of the input parts that have a part in the output
Surviving ==
    { i \in 0..(Len(decompIn) - 1) : ~Selected(i) \/ decompIn[i + 1].gz > 0 }

(***************************************************************************)
(* C1.  In SQS mode a message that yielded a target key is submitted for   *)
(* deletion only after every key extracted from it was returned by Read    *)
(* in a message acknowledged with Acknowledge(nil): no handle submitted by *)
(* an Acknowledge belongs to a message one of whose keys is undelivered.   *)
(***************************************************************************)
C1_DeletedOnlyAfterSentOnwards ==
    \A h \in Submitted("ack") : \A o \in undelivered : o[1] # h

(***************************************************************************)
(* C2.  Acknowledge(err) with a non-nil err issues no DeleteObject and no  *)
(* SQS delete, and puts the keys read since the previous Acknowledge back  *)
(* at the front of targetKeys, in their order, ahead of the pending keys.  *)
(***************************************************************************)
C2_NackRestoresKeys ==
    [][ ret'.op = "Nack" =>
          /\ calls'.s3del = <<>>
          /\ calls'.sqsdel = <<>>
          /\ targetKeys' = readKeys \o targetKeys
          /\ readKeys' = <<>> ]_vars

C2_Witness ==
    /\ ret.op = "Nack"
    /\ calls.settled >= 1
    /\ Len(targetKeys) > calls.settled

(***************************************************************************)
(* C3.  In SQS mode with delete_objects, while every event received gave   *)
(* one valid key, every download succeeded and every Acknowledge was nil:  *)
(* each key was downloaded once and delivered as one part, each key        *)
(* acknowledged got one SQS delete entry and one DeleteObject, issued by   *)
(* the Acknowledge of its message; once no key is left, all four counts    *)
(* equal the number N of events received.                                  *)
(***************************************************************************)
C3_ExactlyOncePerEvent ==
    (clean /\ SQSMode /\ conf.DeleteObjects) =>
        /\ tally.downloads = tally.parts
        /\ tally.s3del = tally.sqsdel
        /\ tally.downloads = tally.s3del + Len(readKeys)
        /\ received = tally.downloads + Len(targetKeys)
        /\ \A i \in 1..Len(calls.s3del) : calls.s3del[i].origin \notin undelivered
        /\ \A h \in Submitted("ack") : \A o \in undelivered : o[1] # h
        /\ (targetKeys = <<>> /\ readKeys = <<>>) =>
              /\ tally.downloads = received
              /\ tally.parts = received
              /\ tally.sqsdel = received
              /\ tally.s3del = received

C3_Witness ==
    /\ clean /\ SQSMode /\ conf.DeleteObjects
    /\ ret.op = "Ack"
    /\ received = MaxReceived
    /\ targetKeys = <<>> /\ readKeys = <<>>
    /\ tally.s3del = MaxReceived

C5_BatchSettledAtomically ==
    [][ /\ Len(ret'.msg) <= conf.MaxBatchCount
        /\ ret'.op = "Ack" =>
              /\ readKeys' = <<>>
              /\ targetKeys' = targetKeys
              /\ calls'.settled = Len(readKeys)
              /\ conf.DeleteObjects =>
                    /\ Len(calls'.s3del) = Len(readKeys)
                    /\ \A i \in 1..Len(readKeys) :
                          calls'.s3del[i].origin = readKeys[i].origin
        /\ ret'.op = "Nack" =>
              /\ readKeys' = <<>>
              /\ KeyOrigins(readKeys) \subseteq KeyOrigins(targetKeys')
              /\ Len(targetKeys') = Len(targetKeys) + Len(readKeys)
              /\ calls'.s3del = <<>>
              /\ calls'.sqsdel = <<>>
      ]_vars

C5_Witness ==
    /\ ret.op = "Ack"
    /\ calls.settled = 2
    /\ Len(calls.s3del) = 2
    /\ conf.MaxBatchCount = 2
    /\ Len(targetKeys) > 0

(***************************************************************************)
(* C6.  Whenever Read returns a message with a nil error, the message has  *)
(* at least one part.                                                      *)
(***************************************************************************)
C6_NoEmptyMessage ==
    ret.hasMsg => Len(ret.msg) >= 1

(***************************************************************************)
(* C7.  Without SQS, under the driver's protocol and as long as no key ran *)
(* out of download retries, every listed key has been delivered in a       *)
(* message acknowledged with nil by the time Read returns TypeClosed.      *)
(***************************************************************************)
C7_AllListedDeliveredBeforeClosed ==
    (ret.op = "Read" /\ ret.err = "TypeClosed" /\ dropped = {})
        => undelivered = {}

(***************************************************************************)
(* C8.  With an SQS queue configured, every object key read from the queue *)
(* becomes a download target, whatever the prefix: after the Read that     *)
(* polled the queue, every key of the events received is pending or read.  *)
(***************************************************************************)
C8_PrefixUnusedWithSQS ==
    calls.polled \subseteq KeyOrigins(targetKeys) \cup KeyOrigins(readKeys)

(***************************************************************************)
(* C9.  Every key taken from an SQS event is downloaded from the bucket    *)
(* found at its own position of the event if there is one, else from the   *)
(* configured bucket: so for the keys held and for the parts returned.     *)
(***************************************************************************)
C9_KeyPairedWithOwnBucket ==
    /\ \A k \in HeldKeys : DownloadBucket(k, conf) = OwnBucket(k)
    /\ \A i \in 1..Len(ret.msg) :
          \A k \in HeldKeys :
              k.origin = ret.msg[i].origin => ret.msg[i].s3_bucket = OwnBucket(k)

(***************************************************************************)
(* C10.  Once a Connect has succeeded, every further Connect returns       *)
(* success and changes nothing: no listing, targetKeys and readKeys as     *)
(* before.                                                                 *)
(***************************************************************************)
C10_ConnectIdempotent ==
    [][ (session /\ ret'.op = "Connect") =>
          /\ ret'.err = "nil"
          /\ calls' = NoCalls
          /\ session' /\ sqs' = sqs
          /\ targetKeys' = targetKeys
          /\ readKeys' = readKeys ]_vars

C10_Witness ==
    /\ ret.op = "Connect"
    /\ session
    /\ ~SQSMode
    /\ calls.listed = 0
    /\ Len(targetKeys) >= 1

(***************************************************************************)
(* C11.  A Read on a reader without a session returns NotConnected and no  *)
(* message, issues no S3 and no SQS request and leaves targetKeys and      *)
(* readKeys as they were, whichever read method is configured.             *)
(***************************************************************************)
C11_NotConnectedReadIsInert ==
    [][ (~session /\ ret'.op = "Read") =>
          /\ ret'.err = "NotConnected"
          /\ ~ret'.hasMsg /\ ret'.msg = <<>>
          /\ calls' = NoCalls
          /\ targetKeys' = targetKeys
          /\ readKeys' = readKeys
          /\ received' = received ]_vars

\* a Read refused while a failed listing has left keys pending
C11_Witness ==
    /\ ret.op = "Read"
    /\ ret.err = "NotConnected"
    /\ ~session
    /\ Len(targetKeys) >= 1

(***************************************************************************)
(* C12.  In SQS mode, a Read that finds targetKeys empty and whose poll    *)
(* succeeds without adding a target key returns Timeout and no message,    *)
(* downloads and deletes no object, submits no handle of a key for         *)
(* deletion, and leaves readKeys as it was and targetKeys empty; no        *)
(* Acknowledge is due after it.                                            *)
(***************************************************************************)
C12_TimeoutReadMovesNothing ==
    [][ ( /\ session /\ sqs /\ targetKeys = <<>>
          /\ ret'.op = "Read" /\ ret'.err # "error"
          /\ undelivered' = undelivered ) =>
          /\ ret'.err = "Timeout"
          /\ ~ret'.hasMsg /\ ret'.msg = <<>>
          /\ readKeys' = readKeys
          /\ targetKeys' = <<>>
          /\ calls'.downloads = 0
          /\ calls'.s3del = <<>>
          /\ \A b \in 1..Len(calls'.sqsdel) : calls'.sqsdel[b].kind = "dud"
          /\ dropped' = dropped ]_vars

\* a Timeout after a poll that received only messages without a target,
\* while a key read earlier is still unacknowledged
C12_Witness ==
    /\ ret.op = "Read"
    /\ ret.err = "Timeout"
    /\ calls.sqsdel # <<>>
    /\ readKeys # <<>>

(***************************************************************************)
(* C13.  Every SQS message a Read receives either contributes a target key *)
(* or is submitted for deletion as a dud by the same call.                 *)
(***************************************************************************)
C13_UntargetedMessagesDiscarded ==
    [][ ret'.op = "Read" =>
          \A id \in (received + 1)..received' :
              \/ id \in Submitted("dud")'
              \/ \E o \in KeyOrigins(targetKeys \o readKeys)' : o[1] = id ]_vars

(***************************************************************************)
(* C14.  Every part of a message returned by Read carries as s3_key the    *)
(* key of the object downloaded and as s3_bucket the bucket the download   *)
(* was requested from (the key's bucket, else the configured one); the     *)
(* object's own metadata is copied exactly when the download manager is    *)
(* not used.                                                               *)
(***************************************************************************)
C14_PartMetadata ==
    ret.hasMsg =>
        \A i \in 1..Len(ret.msg) :
            /\ \E j \in 1..Len(readKeys) :
                  /\ readKeys[j].origin = ret.msg[i].origin
                  /\ ret.msg[i].s3_key = readKeys[j].s3Key
                  /\ ret.msg[i].s3_bucket = DownloadBucket(readKeys[j], conf)
            /\ ret.msg[i].meta <=> ~conf.DownloadManager

\* a batch of two parts, one from a bucket named by its event and one from
\* the configured bucket, read without the download manager
C14_Witness ==
    /\ ret.hasMsg
    /\ Len(ret.msg) = 2
    /\ ret.msg[1].s3_bucket # conf.Bucket
    /\ ret.msg[2].s3_bucket = conf.Bucket
    /\ ret.msg[1].meta

(***************************************************************************)
(* C19.  With retries r >= 1, a key leaves targetKeys for failed downloads *)
(* at its r-th failed download: a failed download that does not remove the *)
(* key ends the Read with the key at the head of targetKeys, and a key     *)
(* pending that was never removed has r minus its failed downloads         *)
(* attempts left, at least one.                                            *)
(***************************************************************************)
C19_DroppedAtRetriesFailures ==
    [][ conf.Retries >= 1 =>
          /\ \A o \in dropped' \ dropped :
                /\ FailedOf(failed', o) = conf.Retries
                /\ o \notin KeyOrigins(targetKeys')
          /\ \A o \in DOMAIN failed' \ dropped' :
                FailedOf(failed', o) > FailedOf(failed, o) =>
                    /\ targetKeys' # <<>>
                    /\ targetKeys'[1].origin = o
          /\ \A i \in 1..Len(targetKeys') :
                targetKeys'[i].origin \notin dropped' =>
                    /\ targetKeys'[i].attempts =
                          conf.Retries - FailedOf(failed', targetKeys'[i].origin)
                    /\ targetKeys'[i].attempts >= 1
      ]_vars

\* a key removed at its second failed download, with retries 2
C19_Witness ==
    /\ conf.Retries = 2
    /\ ret.op = "Read"
    /\ \E o \in dropped : FailedOf(failed, o) = 2 /\ o \notin KeyOrigins(targetKeys)

(***************************************************************************)
(* C20.  A key removed for failing past retries is never pending again.    *)
(***************************************************************************)
C20_DroppedForGood ==
    \A o \in dropped : o \notin KeyOrigins(targetKeys)

(***************************************************************************)
(* C21.  Without SQS, whenever Read returns TypeClosed both targetKeys and *)
(* readKeys are empty.                                                     *)
(***************************************************************************)
C21_ClosedMeansExhausted ==
    (~SQSMode /\ ret.op = "Read" /\ ret.err = "TypeClosed") =>
        /\ targetKeys = << >>
        /\ readKeys = << >>

(***************************************************************************)
(* C23.  Acknowledge(nil) issues DeleteObject only for objects that were   *)
(* part of the message it acknowledges: never for an object whose key was  *)
(* removed after its retries or whose body could not be read.              *)
(***************************************************************************)
C23_OnlyDeliveredObjectsDeleted ==
    \A i \in 1..Len(calls.s3del) : calls.s3del[i].origin \notin undelivered

(***************************************************************************)
(* C24.  Only Acknowledge(nil) issues DeleteObject or submits the handle   *)
(* of a message that yielded a target key: after Connect, Read and a       *)
(* non-nil Acknowledge no DeleteObject was issued and the handles          *)
(* submitted, if any, belong to messages without a key; and without        *)
(* delete_objects no DeleteObject is issued at all.                        *)
(***************************************************************************)
C24_DeletesOnlyInAckNil ==
    /\ ret.op # "Ack" =>
          /\ calls.s3del = << >>
          /\ Submitted("ack") = {}
          /\ \A h \in Submitted("dud") : \A k \in HeldKeys : k.origin[1] # h
    /\ ~conf.DeleteObjects => calls.s3del = << >>

\* a Read that deleted a dud message and returned a part whose message is
\* still to be deleted, with delete_objects set
C24_Witness ==
    /\ ret.op = "Read" /\ ret.hasMsg /\ Len(ret.msg) >= 1
    /\ conf.DeleteObjects
    /\ Submitted("dud") # {}
    /\ \E i \in 1..Len(readKeys) : readKeys[i].sqsHandle # 0

(***************************************************************************)
(* C25.  Read and Acknowledge(non-nil) lose and duplicate no key: no key   *)
(* is held twice; Read keeps readKeys as a prefix of the new readKeys and  *)
(* readKeys ++ targetKeys as a prefix of the new readKeys ++ targetKeys,   *)
(* what follows being the keys of the events it received; a non-nil        *)
(* Acknowledge leaves readKeys ++ targetKeys as it was.                    *)
(***************************************************************************)
C25_KeysConserved ==
    [][ /\ \A i, j \in 1..Len(AllKeys(readKeys', targetKeys')) :
              AllKeys(readKeys', targetKeys')[i].origin
                  = AllKeys(readKeys', targetKeys')[j].origin => i = j
        /\ ret'.op = "Read" =>
              /\ IsPrefix(readKeys, readKeys')
              /\ IsPrefix(AllKeys(readKeys, targetKeys),
                          AllKeys(readKeys', targetKeys'))
              /\ \A i \in (Len(readKeys) + Len(targetKeys) + 1)
                             ..(Len(readKeys') + Len(targetKeys')) :
                    AllKeys(readKeys', targetKeys')[i].origin[1] > received
        /\ ret'.op = "Nack" =>
              /\ readKeys' \o targetKeys' = readKeys \o targetKeys
              /\ readKeys' = << >>
      ]_vars

\* a Read that moved two keys to readKeys, one of them removed after its
\* retries, having started with a key read before
C25_Witness ==
    /\ ret.op = "Read"
    /\ Len(readKeys) = 3
    /\ Len(ret.msg) = 1
    /\ calls.downloads = 2

(***************************************************************************)
(* C26.  A download that fails with attempts remaining ends the Read with  *)
(* the key at the head of targetKeys, its attempts decreased by one, and   *)
(* not in readKeys; the Read returns the parts built so far with a nil     *)
(* error if there are any, else an error and no message.                   *)
(***************************************************************************)
C26_RetryableFailureEndsRead ==
    [][ ret'.op = "Read" =>
          \A o \in DOMAIN failed' :
              ( /\ FailedOf(failed', o) > FailedOf(failed, o)
                /\ AttemptsLeft(o) # 1 ) =>
                  /\ targetKeys' # << >>
                  /\ targetKeys'[1].origin = o
                  /\ targetKeys'[1].attempts = AttemptsLeft(o) - 1
                  /\ o \notin KeyOrigins(readKeys')
                  /\ \/ /\ ret'.hasMsg /\ ret'.err = "nil"
                        /\ Len(ret'.msg) >= 1
                     \/ /\ ~ret'.hasMsg /\ ret'.err = "error"
                        /\ ret'.msg = << >>
      ]_vars

\* a batch of two cut short: one part, then a failed download of the key
\* now at the head
C26_Witness ==
    /\ ret.op = "Read" /\ ret.hasMsg
    /\ conf.MaxBatchCount = 2
    /\ Len(ret.msg) = 1
    /\ calls.downloads = 2
    /\ targetKeys # << >>
    /\ FailedOf(failed, targetKeys[1].origin) = 1
    /\ conf.Retries = 2
    /\ targetKeys[1].attempts = 1

(***************************************************************************)
(* C27.  No receipt handle is submitted for deletion twice: the entries a  *)
(* call submits are distinct and none was submitted by an earlier call;    *)
(* and of the keys a message adds to targetKeys exactly one, the last,     *)
(* carries its handle.                                                     *)
(***************************************************************************)
C27_HandleSubmittedOnce ==
    [][ /\ LET e == Entries(calls'.sqsdel) IN
           /\ \A i, j \in 1..Len(e) : e[i] = e[j] => i = j
           /\ \A i \in 1..Len(e) : e[i] \notin deleted
        /\ ret'.op = "Read" =>
              \A id \in (received + 1)..received' :
                  LET keys == readKeys' \o targetKeys'
                      own  == KeysOfMessage(keys, id)
                  IN  own # {} =>
                        \E i \in own :
                            /\ keys[i].sqsHandle = id
                            /\ \A j \in own \ {i} :
                                  /\ keys[j].sqsHandle = 0
                                  /\ keys[j].origin[2] < keys[i].origin[2]
      ]_vars

\* the two keys of one message acknowledged together after a redelivery:
\* one entry, the handle of the message
C27_Witness ==
    /\ ret.op = "Ack"
    /\ received = 1
    /\ calls.settled = 2
    /\ Entries(calls.sqsdel) = << 1 >>
    /\ calls.delfail = "none"
    /\ dropped = {}
    /\ nFails >= 1

(***************************************************************************)
(* C28.  Acknowledge returns nil and leaves readKeys empty whatever the    *)
(* delete requests answer; Acknowledge(nil) issues one DeleteObject for    *)
(* each key read (with delete_objects) and one entry for each handle,      *)
(* does not repeat a request that failed, and leaves targetKeys as it was. *)
(***************************************************************************)
C28_AcknowledgeAlwaysSettles ==
    [][ ret'.op \in {"Ack", "Nack"} =>
          /\ ret'.err = "nil"
          /\ readKeys' = << >>
          /\ ret'.op = "Ack" =>
                /\ targetKeys' = targetKeys
                /\ Len(calls'.s3del) =
                      IF conf.DeleteObjects THEN Len(readKeys) ELSE 0
                /\ Len(Entries(calls'.sqsdel)) =
                      Cardinality({ i \in 1..Len(readKeys) :
                                      readKeys[i].sqsHandle # 0 })
      ]_vars

\* an Acknowledge(nil) whose DeleteObject failed, with keys still pending
C28_Witness ==
    /\ ret.op = "Ack"
    /\ calls.delfail = "s3"
    /\ calls.s3del # << >>
    /\ readKeys = << >>
    /\ targetKeys # << >>

(***************************************************************************)
(* C30.  After a Connect that succeeded with a listing, whatever Connects  *)
(* failed before it, targetKeys holds each listed object once, in the      *)
(* order of the listing.                                                   *)
(***************************************************************************)
C30_ListedOnceAfterConnect ==
    (~SQSMode /\ ret.op = "Connect" /\ ret.err = "nil" /\ calls.listed = 1) =>
        LET listed == ListObjects(bucketObjects, conf.Prefix) IN
        /\ Len(targetKeys) = Len(listed)
        /\ \A i \in 1..Len(listed) : targetKeys[i].s3Key = listed[i]

(***************************************************************************)
(* C15.  For the redis_list input: the Read that follows a non-nil         *)
(* acknowledgement returns the message last read and issues no BLPOP, the  *)
(* list staying as it was, and so after every such acknowledgement in a    *)
(* row; every other Read polls the list; and an entry popped and not yet   *)
(* acknowledged with nil is either the message the caller holds or         *)
(* retained for the next Read.                                             *)
(***************************************************************************)
C15_PreserverReemits ==
    [][ /\ presRet'.op = "Read" =>
              IF presRet.op = "Nack"
              THEN /\ presRet'.hasMsg /\ presRet'.err = "nil"
                   /\ presRet'.msg = unacked
                   /\ ~presRet'.blpop
                   /\ redisList' = redisList
              ELSE presRet'.blpop
        /\ unacked' # 0 =>
              \/ presRet'.hasMsg /\ presRet'.msg = unacked'
              \/ preserver'.resend /\ preserver'.last = unacked'
      ]_vars

\* the same entry returned again after two failed acknowledgements in a
\* row, with entries still on the list
C15_Witness ==
    /\ presRet.op = "Read"
    /\ presRet.hasMsg
    /\ ~presRet.blpop
    /\ presFails = 2
    /\ presRet.msg = unacked
    /\ redisList # << >>

(***************************************************************************)
(* C16.  ProcessMessage applies decompression to the part at index i of an *)
(* n-part message exactly when the parts list is empty, contains i or      *)
(* contains i - n; an index of the list that matches no position changes   *)
(* nothing and the call returns a message or a success response, never an  *)
(* error.                                                                  *)
(***************************************************************************)
C16_TargetSelection ==
    Processed =>
        /\ \A i \in 0..(Len(decompIn) - 1) : Applied(i) <=> Selected(i)
        /\ \/ decompOut.resp = "nil" /\ Len(decompOut.msgs) = 1
           \/ decompOut.resp = "success" /\ decompOut.msgs = << >>

\* three parts, the list names -2 and an index past the end
C16_Witness ==
    /\ Processed
    /\ Len(decompIn) = 3
    /\ Configured(-2) /\ Configured(3)
    /\ ~Applied(0) /\ Applied(1) /\ ~Applied(2)
    /\ Len(OutParts) = 3

(***************************************************************************)
(* C17.  The message ProcessMessage returns holds, in the order of the     *)
(* input, the parts not selected as they were and the selected parts that  *)
(* decompressed, decompressed; a selected part that failed to decompress   *)
(* has no part in it.                                                      *)
(***************************************************************************)
C17_FailedPartsRemoved ==
    Processed =>
        /\ Len(OutParts) = Cardinality(Surviving)
        /\ \A i \in Surviving :
              LET k == Cardinality({ j \in Surviving : j <= i })
                  in == decompIn[i + 1]
              IN  OutParts[k] = IF Selected(i) THEN Payload(in.data, in.gz - 1)
                                ELSE in

\* one part left alone, one that fails and is removed, one decompressed
C17_Witness ==
    /\ Processed
    /\ Len(decompIn) = 3
    /\ ~Selected(0)
    /\ Selected(1) /\ decompIn[2].gz = 0
    /\ Selected(2) /\ decompIn[3].gz > 0
    /\ Len(OutParts) = 2

(***************************************************************************)
(* C18.  When every part of the input was selected and failed, or the      *)
(* input had no parts, ProcessMessage returns no message and a success     *)
(* response; the pipeline resolves the transaction as success, invokes no  *)
(* further processor and emits nothing.                                    *)
(***************************************************************************)
C18_EmptyResultSkipped ==
    (Processed /\ Surviving = {}) =>
        /\ decompOut.msgs = << >>
        /\ decompOut.resp = "success"
        /\ pipeline.txn = "success"
        /\ pipeline.further = 0
        /\ pipeline.emitted = << >>

\* two parts, both selected, neither gzip data
C18_Witness ==
    /\ Processed
    /\ Len(decompIn) = 2
    /\ Surviving = {}
    /\ decompParts # << >>
    /\ pipeline.txn = "success"

(***************************************************************************)
(* C22.  ProcessMessage leaves its input message as it was: the same       *)
(* parts, in the same order, with the same contents; what it changes is    *)
(* in the message it returns.                                              *)
(***************************************************************************)
C22_InputNotMutated ==
    [][ decompIn' = decompIn ]_vars

\* a call that decompressed a part: the output differs from the input
C22_Witness ==
    /\ Processed
    /\ Len(decompIn) = 2
    /\ Len(OutParts) = 2
    /\ OutParts[1] = decompIn[1]
    /\ OutParts[2] # decompIn[2]

(***************************************************************************)
(* C29.  The delete loops send n handles in ceil(n/10) DeleteMessageBatch  *)
(* requests of 1 to 10 entries each, whose entries in order are the        *)
(* handles in order: each handle in exactly one request.                   *)
(***************************************************************************)
C29_DeleteBatchesOfTen ==
    batchOut.done =>
        LET r == batchOut.requests
            n == Len(batchIn.handles)
        IN  /\ \A b \in 1..Len(r) :
                  /\ Len(r[b].entries) >= 1
                  /\ Len(r[b].entries) <= 10
                  /\ r[b].kind = batchIn.kind
            /\ Entries(r) = batchIn.handles
            /\ Len(r) = (n + 9) \div 10

\* 21 dud handles: two requests of ten and one of one
C29_Witness ==
    /\ batchOut.done
    /\ batchIn.kind = "dud"
    /\ Len(batchIn.handles) = 21
    /\ Len(batchOut.requests) = 3
    /\ Len(batchOut.requests[3].entries) = 1

(***************************************************************************)
(* C31.  Whatever retries is configured, a key whose downloads keep        *)
(* failing leaves targetKeys after finitely many Reads: a pending key      *)
(* whose download has failed still has at least one attempt left, so that  *)
(* the failures that follow bring its attempts down to zero, where the key *)
(* is removed.                                                             *)
(***************************************************************************)
C31_FailingKeyRunsOut ==
    \A i \in 1..Len(targetKeys) :
        FailedOf(failed, targetKeys[i].origin) > 0 =>
            targetKeys[i].attempts >= 1

(***************************************************************************)
(* C32.  With a queue configured, a Read calls ReceiveMessage at most      *)
(* once, and only if targetKeys was empty when it started: a Read that     *)
(* finds keys pending receives nothing and adds no key.  targetKeys grows  *)
(* only by the keys of the events of one ReceiveMessage, from empty, or by *)
(* the readKeys a non-nil Acknowledge puts back.                           *)
(***************************************************************************)
C32_PollsOnlyWhenExhausted ==
    [][ SQSMode =>
          /\ ret'.op = "Read" =>
                /\ calls'.receives <= 1
                /\ (calls'.receives = 1 \/ received' # received) =>
                        targetKeys = << >>
                /\ targetKeys # << >> =>
                        /\ calls'.receives = 0
                        /\ calls'.polled = {}
                        /\ received' = received
                        /\ Len(targetKeys') <= Len(targetKeys)
                        /\ KeyOrigins(targetKeys') \subseteq KeyOrigins(targetKeys)
                /\ (session /\ targetKeys = << >>) =>
                        /\ calls'.receives = 1
                        /\ Len(targetKeys') <= Cardinality(calls'.polled)
                        /\ KeyOrigins(targetKeys') \subseteq calls'.polled
          /\ Len(targetKeys') > Len(targetKeys) =>
                \/ /\ ret'.op = "Read"
                   /\ targetKeys = << >>
                   /\ calls'.receives = 1
                \/ /\ ret'.op = "Nack"
                   /\ targetKeys' = readKeys \o targetKeys
      ]_vars

\* a Read that found a key pending: a download, and no ReceiveMessage although
\* the queue had more to give
C32_Witness ==
    /\ SQSMode
    /\ ret.op = "Read" /\ ret.hasMsg
    /\ calls.receives = 0
    /\ calls.downloads >= 1
    /\ received = 1
    /\ received < MaxReceived

(***************************************************************************)
(* C33.  ProcessMessage returns either one message, of at least one part   *)
(* and of no more parts than its input, with a nil response, or no message *)
(* with a success response: never several messages, never a message        *)
(* without parts, never an error response, never a message together with a *)
(* response.                                                               *)
(***************************************************************************)
C33_OneMessageOrSuccess ==
    Processed =>
        /\ decompOut.resp \in {"nil", "success"}
        /\ Len(decompOut.msgs) <= 1
        /\ \A k \in 1..Len(decompOut.msgs) :
              /\ Len(decompOut.msgs[k]) >= 1
              /\ Len(decompOut.msgs[k]) <= Len(decompIn)
        /\ decompOut.resp = "nil" <=> Len(decompOut.msgs) = 1
        /\ decompOut.resp = "success" <=> decompOut.msgs = << >>

\* three parts, all selected, two of them gzip data: one message of two parts
C33_Witness ==
    /\ Processed
    /\ decompParts = << >>
    /\ Len(decompIn) = 3
    /\ Cardinality({ i \in 1..3 : decompIn[i].gz > 0 }) = 2
    /\ Len(decompOut.msgs) = 1
    /\ Len(decompOut.msgs[1]) = 2
    /\ decompOut.resp = "nil"

\* the timeout strings that spell a duration: one or more groups of digits
\* followed by one of the units ms, s, m
DurationGroups ==
    { digits \o unit :
        digits \in { d \in SeqsUpTo({"5"}, MaxTimeoutLen) : d # << >> },
        unit \in { <<"m", "s">>, <<"s">>, <<"m">> } }

RECURSIVE DurationsOf(_)
DurationsOf(n) ==
    IF n = 0 THEN { << >> }
    ELSE LET shorter == DurationsOf(n - 1) IN
         shorter \cup { g \o q : g \in DurationGroups, q \in shorter }

ValidDurations == { t \in DurationsOf(MaxTimeoutLen) : t # << >> }

(***************************************************************************)
(* C34.  NewAmazonS3 returns an error and no reader exactly for the        *)
(* configurations whose max_batch_count is below 1 or whose timeout is     *)
(* given and does not spell a duration; otherwise it returns a reader with *)
(* that configuration, so with max_batch_count at least 1, whose read      *)
(* method is readFromMgr if the download manager is enabled and read if it *)
(* is not.  A timeout left empty is not parsed and gives a timeout of 0.   *)
(***************************************************************************)
C34_ConstructorValidates ==
    newOut.done =>
        LET unparsable == /\ newIn.Timeout # << >>
                          /\ newIn.Timeout \notin ValidDurations
            rejected == newIn.MaxBatchCount < 1 \/ unparsable
        IN  /\ rejected <=> newOut.err # "nil"
            /\ rejected => newOut.reader = << >>
            /\ ~rejected =>
                  /\ newOut.reader # << >>
                  /\ newOut.reader.conf = newIn
                  /\ newOut.reader.conf.MaxBatchCount >= 1
                  /\ newOut.reader.readMethod =
                        (IF newIn.DownloadManager THEN "readFromMgr" ELSE "read")
                  /\ newIn.Timeout = << >> => newOut.reader.timeout = 0

\* a max_batch_count of 0 with a timeout of 5ms: refused for the count
C34_Witness ==
    /\ newOut.done
    /\ newIn.MaxBatchCount = 0
    /\ newIn.Timeout = <<"5", "m", "s">>
    /\ newOut.err = "max_batch_count"
    /\ newOut.reader = << >>

=============================================================================
